---- MODULE Spec2Model ----
(***************************************************************************)
(* Model of the multi-step retrieval engine of rass-engine:                *)
(*   planAndExecute  (src/agenticPlanner.js, lines 277-361)                *)
(*   getPlanFromLLM / checkCoverage (same file, lines 364-451)             *)
(*   runPlan and its helpers (src/executePlan.js)                          *)
(* One request is one sequential task; pc is its position.  The plan       *)
(* oracle, the coverage oracle, the embedding provider and the search      *)
(* backend are the environment: each call draws its outcome from a set.    *)
(***************************************************************************)
EXTENDS Integers, Sequences, FiniteSets, TLC

(* ------------------------- program constants -------------------------- *)
MAX_AGENT_ITER == 6
MAX_PLAN_STEPS == 15
DEFAULT_K == 25
EMBED_DIM == 1536
ID_INLINE_MAX == 1000

VALID_FIELDS ==
    {"doc_id", "doc_type", "issue_id", "file_path", "file_type",
     "attachment_content", "text_chunk", "embedding"}

(* ------------------------- bounds of the model ------------------------ *)
\* longest raw plan the plan oracle returns (must exceed MAX_PLAN_STEPS)
MaxRawLen == 17
\* largest number of hits in one page or scroll batch
MaxPageLen == 2
\* largest number of non-empty scroll batches before the empty one
MaxBatches == 2
\* largest first page while the request loops
LoopPageLen == 2

(* ------------------------- optional JS values ------------------------- *)
\* undefined / null is None, a present value x is Some(x)
None == <<>>
Some(x) == <<x>>
IsSome(o) == Len(o) > 0
Get(o) == o[1]
\* JS truthiness of an optional number: present and not 0
Truthy(o) == IsSome(o) /\ Get(o) # 0

(* ------------------------- request bodies ----------------------------- *)
\* an embedding vector: its length and the embedText call that produced it
Vec(len, tag) == [len |-> len, tag |-> tag]
EmptyVec == Vec(0, 0)

\* a filter clause {kw: {field: ...}}; ids / lookup are used by terms clauses
Clause(kw, field) == [kw |-> kw, field |-> field, ids |-> <<>>, lookup |-> None]

Knn(vec, k) == [vector |-> vec, k |-> k]

\* body.query: the keys knn, a top-level leaf clause, bool; each may be absent
Query(knn, leaf, bool) == [knn |-> knn, leaf |-> leaf, bool |-> bool]
BoolQ(should, filter) == [should |-> should, filter |-> filter]

Body(source, size, query) == [source |-> source, size |-> size, query |-> query]

Step(id, purpose, emb, deps, final, qb, camel) ==
    [json |-> "object", step_id |-> id, purpose |-> purpose,
     requires_embedding |-> emb, depends_on |-> deps, is_final |-> final,
     query_body |-> qb, queryBody |-> camel]

\* array elements that are not objects: null, and a primitive such as 42
NullStep == [Step("", "", FALSE, <<>>, FALSE, None, None) EXCEPT !.json = "null"]
PrimStep == [Step("", "", FALSE, <<>>, FALSE, None, None) EXCEPT !.json = "primitive"]

\* the root of a field path: 'doc_id.keyword'.split('.')[0]
Root(f) ==
    CASE f = "doc_id.keyword" -> "doc_id"
      [] f = "patient.name" -> "patient"
      [] OTHER -> f

(* ------------------------- agenticPlanner.js -------------------------- *)
semanticStep(stepId, k) ==
    Step(stepId, "semantic similarity fallback", TRUE, <<>>, TRUE,
         Some(Body(<<"doc_id", "file_path", "attachment_content">>, Some(k),
                   Query(Some(Knn(EmptyVec, Some(k))), None, None))),
         None)

prefixStep(stepId, k) ==
    Step(stepId, "fuzzy / prefix text fallback", FALSE, <<>>, FALSE,
         Some(Body(<<"doc_id", "file_path", "attachment_content">>, Some(k),
                   Query(None, None,
                         Some(BoolQ(<<Clause("match_phrase_prefix", "attachment_content"),
                                      Clause("wildcard", "attachment_content")>>,
                                    <<>>))))),
         None)

\* a JS value held by the variable `plan`: an array of steps, or anything else
PlanVal(isArray, steps) == [isArray |-> isArray, steps |-> steps]

\* getPlanFromLLM: what it returns, or that it throws, for each oracle answer
GetPlanFromLLM(resp) ==
    CASE resp.kind = "throws"         -> [threw |-> TRUE,  isNull |-> FALSE, plan |-> PlanVal(FALSE, <<>>)]
      [] resp.kind = "no_tool_call"   -> [threw |-> FALSE, isNull |-> FALSE, plan |-> PlanVal(TRUE, <<>>)]
      [] resp.kind = "bad_json"       -> [threw |-> FALSE, isNull |-> FALSE, plan |-> PlanVal(TRUE, <<>>)]
      [] resp.kind = "json_null"      -> [threw |-> FALSE, isNull |-> TRUE,  plan |-> PlanVal(FALSE, <<>>)]
      [] resp.kind = "no_plan_key"    -> [threw |-> FALSE, isNull |-> FALSE, plan |-> PlanVal(FALSE, <<>>)]
      [] resp.kind = "plan_not_array" -> [threw |-> FALSE, isNull |-> FALSE, plan |-> PlanVal(FALSE, <<>>)]
      [] OTHER                        -> [threw |-> FALSE, isNull |-> FALSE, plan |-> PlanVal(TRUE, resp.steps)]

\* let plan = []; try { ({ plan } = await getPlanFromLLM(..)) } catch {}
\* destructuring null throws inside the try, so plan keeps []
PlanAfterTry(resp) ==
    LET r == GetPlanFromLLM(resp)
    IN  IF r.threw \/ r.isNull THEN PlanVal(TRUE, <<>>) ELSE r.plan

NeedsFallback(pv) == ~pv.isArray \/ Len(pv.steps) = 0

\* mutant: the fallback is the semantic step alone
FallbackSemanticOnly == <<semanticStep("semantic_fallback", DEFAULT_K)>>

FallbackPlan == <<prefixStep("text_prefix", DEFAULT_K),
                  semanticStep("semantic_fallback", DEFAULT_K)>>

\* mutant: slice(-MAX_PLAN_STEPS), the last steps are kept
TruncateTail(steps) ==
    IF Len(steps) > MAX_PLAN_STEPS
    THEN SubSeq(steps, Len(steps) - MAX_PLAN_STEPS + 1, Len(steps)) ELSE steps

Truncate(steps) ==
    IF Len(steps) > MAX_PLAN_STEPS THEN SubSeq(steps, 1, MAX_PLAN_STEPS) ELSE steps

\* mutant: every step is replaced by the semantic step
NormaliseStepReplace(s) ==
    [ok |-> s.json = "object", step |-> semanticStep("auto_semantic", DEFAULT_K)]

\* the body of the normalisation loop for one step; ok = FALSE is a TypeError
\* (null.queryBody, or undefined.size after Object.assign on a primitive)
NormaliseStep(s) ==
    IF s.json # "object" THEN [ok |-> FALSE, step |-> s]
    ELSE
      LET s1 == IF IsSome(s.queryBody) /\ ~IsSome(s.query_body)
                THEN [s EXCEPT !.query_body = s.queryBody, !.queryBody = None]
                ELSE s
          s2 == IF ~IsSome(s1.query_body)
                THEN LET f == semanticStep(IF s1.step_id # "" THEN s1.step_id
                                           ELSE "auto_semantic", DEFAULT_K)
                     IN  [f EXCEPT !.queryBody = s1.queryBody]
                ELSE s1
          b  == Get(s2.query_body)
          s3 == IF ~IsSome(b.size)
                THEN [s2 EXCEPT !.query_body = Some([b EXCEPT !.size = Some(DEFAULT_K)])]
                ELSE s2
      IN  [ok |-> TRUE, step |-> s3]

\* for (const step of plan) {...}: stops at the first step that throws
NormaliseAll(steps) ==
    [ok   |-> \A i \in 1..Len(steps) : NormaliseStep(steps[i]).ok,
     plan |-> [i \in 1..Len(steps) |-> NormaliseStep(steps[i]).step]]

\* mutant: the loop is left one iteration early
LoopCondShort(it) == it + 1 < MAX_AGENT_ITER
\* mutant: iteration++ <= MAX_AGENT_ITER, one iteration too many
LoopCondLong(it) == it <= MAX_AGENT_ITER

\* while (iteration++ < MAX_AGENT_ITER)
LoopCond(it) == it < MAX_AGENT_ITER

Summary(res) ==
    [i \in 1..Len(res) |-> [step_id |-> res[i].id, hit_count |-> Len(res[i].hits)]]

\* mutant: the history keeps the last summary only
HistoryReplace(hist, summary) == summary

\* history.push(...summary)
HistoryPush(hist, summary) == hist \o summary

\* checkCoverage({openai, query, history: summary})
CoverageArg(hist, summary) == summary

\* mutant: the zero-hit stop is missing
AllZeroNever(summary) == FALSE

\* summary.every(s => s.hit_count === 0)
AllZero(summary) == \A i \in 1..Len(summary) : summary[i].hit_count = 0

\* mutant: the catch block answers true (fail-open)
CheckCoverageFailOpen(ans) == ans # "false"
\* mutant: the answer is inverted
CheckCoverageInverted(ans) == ans = "false"

\* checkCoverage: the value of `covered` it returns for each oracle answer;
\* a throwing call and an unparsable answer are caught and give false
CheckCoverage(ans) ==
    CASE ans = "true" -> TRUE
      [] ans = "false" -> FALSE
      [] ans = "throws" -> FALSE
      [] ans = "unparsable" -> FALSE
      [] OTHER -> FALSE

\* the value returned after the loop: new Map()
GaveUpValue(res) == <<>>

(* ------------------------- executePlan.js ----------------------------- *)
HasKnn(steps) == \E i \in 1..Len(steps) : steps[i].requires_embedding

SemanticRecall ==
    Step("semantic_recall", "initial semantic similarity recall", TRUE, <<>>, FALSE,
         Some(Body(<<"doc_id", "file_path">>, Some(DEFAULT_K),
                   Query(Some(Knn(EmptyVec, Some(DEFAULT_K))), None, None))),
         None)

FullPlan(steps) == IF HasKnn(steps) THEN steps ELSE <<SemanticRecall>> \o steps

StepId(s) == IF s.step_id # "" THEN s.step_id ELSE "step?"
StepPurpose(s) == IF s.purpose # "" THEN s.purpose ELSE "unspecified"
StepBody(s) == IF IsSome(s.query_body) THEN s.query_body ELSE s.queryBody

\* results is a Map: entries in insertion order, one per key
HasKey(res, id) == \E i \in 1..Len(res) : res[i].id = id
MapGet(res, id) == res[CHOOSE i \in 1..Len(res) : res[i].id = id]
MapSet(res, id, purpose, hits) ==
    LET e == [id |-> id, purpose |-> purpose, hits |-> hits]
    IN  IF HasKey(res, id)
        THEN [i \in 1..Len(res) |-> IF res[i].id = id THEN e ELSE res[i]]
        ELSE Append(res, e)

\* mutant: the dependency test is missing
DepsMissingNever(deps, res) == FALSE

\* deps.some(d => !results.has(d))
DepsMissing(deps, res) == \E i \in 1..Len(deps) : ~HasKey(res, deps[i])

ReplaceVectors(body, vec, k) ==
    IF IsSome(body.query.knn)
    THEN LET old == Get(body.query.knn)
         IN  [body EXCEPT !.query.knn =
                 Some(Knn(vec, IF Truthy(old.k) THEN old.k ELSE Some(k)))]
    ELSE body

\* mutant: no field is taken for unknown
UnknownTopFieldNever(body) == FALSE

\* the top-level clause is a term / match / terms on a field outside the schema
UnknownTopField(body) ==
    /\ IsSome(body.query.leaf)
    /\ Get(body.query.leaf).kw \in {"term", "match", "terms"}
    /\ Root(Get(body.query.leaf).field) # ""
    /\ Root(Get(body.query.leaf).field) \notin VALID_FIELDS

InjectVector(body, vec, k) ==
    [body EXCEPT !.query = Query(Some(Knn(vec, Some(k))), None, None),
                 !.size = IF Truthy(body.size) THEN body.size ELSE Some(k)]

\* the hits of all dependencies, in order of deps
RECURSIVE DepHits(_, _)
DepHits(deps, res) ==
    IF Len(deps) = 0 THEN <<>>
    ELSE (IF HasKey(res, Head(deps)) THEN MapGet(res, Head(deps)).hits ELSE <<>>)
         \o DepHits(Tail(deps), res)

\* mutant: the identifiers are collected in an array, duplicates are kept
DedupeNone(seq) == seq

\* new Set() filled in order, then [...set]: the first occurrence of each value
\* is kept, in insertion order
Dedupe(seq) ==
    LET first == SelectSeq([i \in 1..Len(seq) |-> i],
                           LAMBDA i : \A j \in 1..(i - 1) : seq[j] # seq[i])
    IN  [k \in 1..Len(first) |-> seq[first[k]]]

CollectIds(deps, res) ==
    LET hs == DepHits(deps, res)
    IN  Dedupe([i \in 1..Len(hs) |-> hs[i].issue_id])

\* mutant: the side document is used from ID_INLINE_MAX identifiers on
NeedsStoreAtThreshold(ids) == Len(ids) >= ID_INLINE_MAX

NeedsStore(ids) == Len(ids) > ID_INLINE_MAX

\* storeIdList: the document {issue_ids: ids} written under a fresh id
SideDoc(docId, ids) == [id |-> docId, path |-> "issue_ids", issue_ids |-> ids]

IdClause(ids, docId) ==
    IF NeedsStore(ids)
    THEN [Clause("terms", "issue_id") EXCEPT
             !.lookup = Some([id |-> docId, path |-> "issue_ids"])]
    ELSE [Clause("terms", "issue_id") EXCEPT !.ids = ids]

\* mutant: the clause replaces the filters of the step
InjectClauseReplace(body, clause) ==
    LET b == IF IsSome(body.query.bool) THEN Get(body.query.bool) ELSE BoolQ(<<>>, <<>>)
    IN  [body EXCEPT !.query.bool = Some([b EXCEPT !.filter = <<clause>>])]

\* injectChainedIds once the id set is known to be non-empty
InjectClause(body, clause) ==
    LET b == IF IsSome(body.query.bool) THEN Get(body.query.bool) ELSE BoolQ(<<>>, <<>>)
    IN  [body EXCEPT !.query.bool = Some([b EXCEPT !.filter = Append(b.filter, clause)])]

\* validate: throws only for a knn vector of the wrong length
Validate(body) ==
    ~(IsSome(body.query.knn) /\ Get(body.query.knn).vector.len # EMBED_DIM)

\* mutant: the result map of the last runPlan call is used again
ReuseResults(old) == old

\* const results = new Map()
NewResults(old) == <<>>

\* mutant: clearScroll leaves the cursor open
AfterClearLeak(n) == n

\* os.clearScroll({scroll_id: [sid]}): the cursor is closed on the backend
AfterClear(n) == n - 1

\* mutant: a batch replaces what was collected
PushReplace(hs, batch) == batch

\* hits.push(...batch)
Push(hs, batch) == hs \o batch

\* mutant: the scroll loop never breaks
ScrollBreakNever(batch) == FALSE

\* `if (!resp.body.hits.hits.length) break;`
ScrollBreak(batch) == Len(batch) = 0

(* ------------------------- the caller: ask ----------------------------- *)
\* for (const [, r] of resMap) for (const h of r.hits) documents.push(h._source)
RECURSIVE Documents(_)
Documents(resMap) ==
    IF Len(resMap) = 0 THEN <<>>
    ELSE Head(resMap).hits \o Documents(Tail(resMap))

(* ------------------------- the environment ---------------------------- *)
\* The collaborators are injected into planAndExecute (openai, osClient,
\* embedText).  Two families of collaborators are explored:
\*   "loop": the coverage oracle may answer anything in each of the six
\*           iterations, the plans are short and the backend answers without
\*           failing, with one page;
\*   "rich": the plan oracle draws from every plan shape, the embedding
\*           provider and the backend may fail at every call, and the coverage
\*           oracle accepts the first attempt that has hits;
\*   "bulk": a chained plan over an index whose first page carries
\*           ID_INLINE_MAX distinct issue ids; the backend may fail;
\*   "chain": the request loops and a later plan names a step of an earlier
\*           plan; one page per step, the scroll may fail.
Hit(i) == [_id |-> i, issue_id |-> (i + 1) \div 2]
\* a page of n hits following the `base` hits already delivered
Page(base, n) == [i \in 1..n |-> Hit(base + i)]

KnnBody(size) == Body(<<"doc_id">>, size, Query(Some(Knn(EmptyVec, None)), None, None))
TermBody(field, size) == Body(<<"doc_id">>, size, Query(None, Some(Clause("term", field)), None))

StepA == Step("A", "recall", TRUE, <<>>, FALSE, Some(KnnBody(Some(10))), None)
StepT == Step("T", "by id", FALSE, <<>>, FALSE, Some(TermBody("doc_id", None)), None)
StepB == Step("B", "chained", FALSE, <<"T">>, TRUE, Some(TermBody("file_type", Some(5))), None)
StepNoBody == Step("N", "no body", FALSE, <<"T">>, FALSE, None, None)
StepCamel == Step("", "camel", TRUE, <<>>, FALSE, None, Some(KnnBody(None)))
\* a step that waits for a step id no step of the plan has
StepO == Step("O", "orphan", TRUE, <<"ghost">>, FALSE, Some(KnnBody(Some(10))), None)
\* a recall step that asks for size 0
StepZ == Step("Z", "size zero", TRUE, <<>>, FALSE, Some(KnnBody(Some(0))), None)
\* a term on a field outside the schema, at the top of the query
StepU == Step("U", "unknown field", FALSE, <<>>, TRUE,
              Some(TermBody("patient.name", Some(5))), None)
\* a range on a field outside the schema
StepR == Step("R", "unknown range", FALSE, <<>>, TRUE,
              Some(Body(<<"doc_id">>, Some(5),
                        Query(None, Some(Clause("range", "patient.name")), None))),
              None)
\* a step with neither an id nor a query body
StepBare == Step("", "bare", FALSE, <<>>, FALSE, None, None)
\* a recall step that waits for itself
StepSelf == Step("S", "waits for itself", TRUE, <<"S">>, FALSE, Some(KnnBody(Some(10))), None)
\* a step that waits for a step placed after it
StepF == Step("F", "waits for a later step", FALSE, <<"T">>, FALSE,
              Some(TermBody("file_type", Some(5))), None)
\* a chained step that already has clauses of its own
StepG == Step("G", "chained, with filters", FALSE, <<"A">>, TRUE,
              Some(Body(<<"doc_id">>, Some(5),
                        Query(None, None,
                              Some(BoolQ(<<Clause("match", "attachment_content")>>,
                                         <<Clause("term", "doc_type"),
                                           Clause("term", "file_type")>>))))),
              None)
\* a step chained on the recall step
StepD == Step("D", "chained on recall", FALSE, <<"A">>, TRUE,
              Some(TermBody("file_type", Some(5))), None)
\* a step chained on two earlier steps
StepC == Step("C", "chained on two", FALSE, <<"A", "T">>, TRUE,
              Some(TermBody("file_type", Some(5))), None)

\* steps of a long plan: the first runs, the others wait for a step that never ran
LongStep(i) ==
    Step("s" \o ToString(i), "long", FALSE, IF i = 1 THEN <<>> ELSE <<"ghost">>, FALSE,
         Some(TermBody("doc_id", None)), None)
LongPlan(n) == [i \in 1..n |-> LongStep(i)]

Resp(kind, steps) == [kind |-> kind, steps |-> steps]

\* answers of the plan oracle while the request loops
LoopResponses == {Resp("plan", <<StepA>>), Resp("plan", <<NullStep>>)}

\* answers of the plan oracle in a request that stops after one attempt
RichResponses ==
    {Resp(k, <<>>) : k \in {"throws", "no_tool_call", "bad_json", "json_null",
                            "no_plan_key", "plan_not_array", "plan"}}
    \cup {Resp("plan", p) : p \in {<<NullStep>>, <<PrimStep>>, <<StepA, PrimStep>>,
                                   <<StepA>>, <<StepT, StepB>>, <<StepNoBody>>,
                                   <<StepCamel, StepT>>, <<StepO>>, <<StepO, StepT>>,
                                   <<StepA, StepT, StepC>>, <<StepZ, StepU>>,
                                   <<StepR>>, <<StepSelf, StepF, StepT>>,
                                   <<StepCamel, StepCamel>>, <<StepA, StepG>>,
                                   <<StepBare>>}}
    \cup {Resp("plan", LongPlan(n)) : n \in (MAX_PLAN_STEPS + 1)..MaxRawLen}

\* answers of the plan oracle in a request whose later plans name earlier steps
ChainResponses == {Resp("plan", <<StepA>>), Resp("plan", <<StepD>>)}

\* answers of the plan oracle in a request over a large index
BulkResponses == {Resp("plan", <<StepA, StepD>>)}

\* a first page whose hits carry exactly ID_INLINE_MAX distinct issue ids
BulkPage == 2 * ID_INLINE_MAX

PlanResponses(sc) ==
    IF sc = "loop" THEN LoopResponses
    ELSE IF sc = "bulk" THEN BulkResponses
    ELSE IF sc = "chain" THEN ChainResponses ELSE RichResponses
CoverageAnswers(sc) ==
    IF sc = "loop" THEN {"true", "false", "throws", "unparsable"}
    ELSE IF sc = "chain" THEN {"true", "false"} ELSE {"true"}
EmbedOutcomes(sc) == IF sc = "rich" THEN {"ok", "short", "throws"} ELSE {"ok"}
\* page sizes of the first search page and of a scroll batch; -1 is a failed call
SearchOutcomes(sc) ==
    IF sc = "loop" THEN 0..LoopPageLen
    ELSE IF sc = "bulk" THEN {0 - 1, 0, BulkPage}
    ELSE IF sc = "chain" THEN {0, MaxPageLen} ELSE (0 - 1)..MaxPageLen
ScrollOutcomes(sc, batches) ==
    IF sc = "loop" THEN {0}
    ELSE IF sc = "chain" THEN {0 - 1, 0}
    ELSE IF sc = "bulk"
    THEN (IF batches < MaxBatches THEN {0 - 1, 0, MaxPageLen} ELSE {0 - 1, 0})
    ELSE IF batches < MaxBatches THEN (0 - 1)..MaxPageLen ELSE {0 - 1, 0}
ClearOutcomes(sc) == IF sc = "loop" THEN {"ok"} ELSE {"ok", "throws"}
\* outcome of os.index in storeIdList
StoreOutcomes(sc) == IF sc = "loop" THEN {"ok"} ELSE {"ok", "throws"}

(* ------------------------- state --------------------------------------- *)
VARIABLES
    scenario,    \* which collaborators are injected: "loop", "rich", "bulk", "chain"
    pc,          \* position of the request
    iteration,   \* planAndExecute: let iteration
    history,     \* planAndExecute: const history
    rawPlan,     \* planAndExecute: plan after the try / catch
    plan,        \* planAndExecute: plan after fallback, truncation, normalisation
    outcome,     \* how planAndExecute ended
    error,       \* the place that threw, when outcome = "threw"
    returned,    \* the value planAndExecute returned
    lastCov,     \* answer of the coverage oracle in this iteration
    planArg,     \* the history handed to the plan oracle at its last call
    covArg,      \* the history handed to the coverage oracle at its last call
    planCalls,   \* calls of the plan oracle
    runCalls,    \* calls of runPlan
    covCalls,    \* calls of the coverage oracle
    fullPlan,    \* runPlan: const fullPlan
    stepIdx,     \* runPlan: position of the for loop in fullPlan
    results,     \* runPlan: const results (the Map)
    queryVec,    \* runPlan: let queryVec
    embedCalls,  \* calls of embedText in this runPlan call
    body,        \* the request body of the step being executed
    hits,        \* scrollAll: const hits
    batches,     \* scrollAll: non-empty scroll batches fetched
    cursor,      \* "none", "open" or "released": the scroll cursor of this step
    served,      \* backend: hits handed out on the cursor of this step
    openCursors, \* backend: cursors opened by this request and not yet cleared
    sideDocs     \* backend: the documents written by storeIdList, in order

vars == <<scenario, pc, iteration, history, rawPlan, plan, outcome, error, returned,
          lastCov, planArg, covArg, planCalls, runCalls, covCalls, fullPlan, stepIdx, results,
          queryVec, embedCalls, body, hits, batches, cursor, served, openCursors,
          sideDocs>>

plannerVars == <<iteration, history, rawPlan, plan, returned, lastCov, planArg, covArg,
                 planCalls, runCalls, covCalls>>
runVars == <<fullPlan, stepIdx, results, queryVec, embedCalls>>
scrollVars == <<body, hits, batches, cursor, served, openCursors, sideDocs>>

Init ==
    /\ scenario \in {"loop", "rich"}
    /\ pc = "test"
    /\ iteration = 0
    /\ history = <<>>
    /\ rawPlan = PlanVal(TRUE, <<>>)
    /\ plan = <<>>
    /\ outcome = "running"
    /\ error = "none"
    /\ returned = <<>>
    /\ lastCov = "none"
    /\ planArg = <<>>
    /\ covArg = <<>>
    /\ planCalls = 0
    /\ runCalls = 0
    /\ covCalls = 0
    /\ fullPlan = <<>>
    /\ stepIdx = 0
    /\ results = <<>>
    /\ queryVec = None
    /\ embedCalls = 0
    /\ body = None
    /\ hits = <<>>
    /\ batches = 0
    /\ cursor = "none"
    /\ served = 0
    /\ openCursors = 0
    /\ sideDocs = <<>>

\* an exception leaves planAndExecute: the caller's promise rejects
Throw(where) ==
    /\ pc' = "done"
    /\ outcome' = "threw"
    /\ error' = where

(* ------------------------- planAndExecute ----------------------------- *)
\* while (iteration++ < MAX_AGENT_ITER) ... ; after the loop: return new Map()
LoopTest ==
    /\ pc = "test"
    /\ iteration' = iteration + 1
    /\ IF LoopCond(iteration)
       THEN /\ pc' = "plan"
            /\ UNCHANGED <<outcome, returned>>
       ELSE /\ pc' = "done"
            /\ outcome' = "gave_up"
            /\ returned' = GaveUpValue(results)
    /\ UNCHANGED <<scenario, history, rawPlan, plan, error, lastCov, planArg, covArg,
                   planCalls, runCalls, covCalls>>
    /\ UNCHANGED runVars
    /\ UNCHANGED scrollVars

\* steps 1-3: the plan oracle answers, then fallback, truncation, normalisation
PlanOracleAct(resp) ==
    /\ pc = "plan"
    /\ planCalls' = planCalls + 1
    /\ planArg' = history
    /\ lastCov' = "none"
    /\ \E pv \in {PlanAfterTry(resp)} :
       \E steps \in {Truncate(IF NeedsFallback(pv) THEN FallbackPlan ELSE pv.steps)} :
       \E n \in {NormaliseAll(steps)} :
           /\ rawPlan' = pv
           /\ IF n.ok
              THEN /\ plan' = n.plan
                   /\ pc' = "run"
                   /\ UNCHANGED <<outcome, error>>
              ELSE /\ plan' = steps
                   /\ Throw("normalise")
    /\ UNCHANGED <<scenario, iteration, history, returned, covArg, runCalls, covCalls>>
    /\ UNCHANGED runVars
    /\ UNCHANGED scrollVars

PlanOracle == \E resp \in PlanResponses(scenario) : PlanOracleAct(resp)

(* ------------------------- runPlan ------------------------------------ *)
\* step 4: runPlan is called; its prologue up to the for loop
RunPlanStart ==
    /\ pc = "run"
    /\ runCalls' = runCalls + 1
    /\ results' = NewResults(results)
    /\ queryVec' = None
    /\ embedCalls' = 0
    /\ fullPlan' = FullPlan(plan)
    /\ stepIdx' = 1
    /\ pc' = "step"
    /\ UNCHANGED <<scenario, iteration, history, rawPlan, plan, outcome, error,
                   returned, lastCov, planArg, covArg, planCalls, covCalls>>
    /\ UNCHANGED scrollVars

\* mutant: the cached vector is ignored, every step embeds again
CacheMissAlways(qv) == TRUE

\* `if (!queryVec) queryVec = await embedText(queryText)`
CacheMiss(qv) == ~IsSome(qv)

\* mutant: the step's own size is ignored
TopKDefault(size) == DEFAULT_K

\* const topK = body.size || DEFAULT_K
TopK(size) == IF Truthy(size) THEN Get(size) ELSE DEFAULT_K

\* the embedding provider's answer to one embedText call
EmbedResult(e, tag) ==
    IF e = "ok" THEN Vec(EMBED_DIM, tag) ELSE Vec(EMBED_DIM - 1, tag)

\* one pass of the for loop up to the call of scrollAll (lines 117-158):
\* e is the outcome of embedText, w of the side-document write, if called
Materialise(s, res, qv, calls, e, w) ==
    LET deps == s.depends_on
        b0 == StepBody(s)
    IN  IF ~IsSome(b0) \/ DepsMissing(deps, res)
        THEN [kind |-> "skip", body |-> None, qv |-> qv, calls |-> calls, store |-> None]
        ELSE
          LET b1 == Get(b0)
              topK == TopK(b1.size)
              b2 == [b1 EXCEPT !.size = Some(topK)]
              wantsVec == s.requires_embedding
              needEmbed == CacheMiss(qv) /\ (wantsVec \/ UnknownTopField(b2))
              qv1 == IF needEmbed THEN Some(EmbedResult(e, calls + 1)) ELSE qv
              calls1 == IF needEmbed THEN calls + 1 ELSE calls
              ids == CollectIds(deps, res)
          IN  IF needEmbed /\ e = "throws"
              THEN [kind |-> "embed", body |-> None, qv |-> qv, calls |-> calls1, store |-> None]
              ELSE
                LET b3 == IF wantsVec THEN ReplaceVectors(b2, Get(qv1), topK)
                          ELSE IF UnknownTopField(b2) THEN InjectVector(b2, Get(qv1), topK)
                          ELSE b2
                IN  IF Len(ids) > 0 /\ NeedsStore(ids) /\ w = "throws"
                    THEN [kind |-> "storeIdList", body |-> None, qv |-> qv1, calls |-> calls1,
                          store |-> None]
                    ELSE
                      LET b4 == IF Len(ids) = 0 THEN b3
                                ELSE InjectClause(b3, IdClause(ids, "issue_ids_list"))
                          st == IF Len(ids) > 0 /\ NeedsStore(ids)
                                THEN Some(SideDoc("issue_ids_list", ids)) ELSE None
                      IN  IF Validate(b4)
                          THEN [kind |-> "send", body |-> Some(b4), qv |-> qv1,
                                calls |-> calls1, store |-> st]
                          ELSE [kind |-> "validate", body |-> None, qv |-> qv1,
                                calls |-> calls1, store |-> st]

StepAct(e, w) ==
    /\ pc = "step"
    /\ stepIdx <= Len(fullPlan)
    /\ \E m \in {Materialise(fullPlan[stepIdx], results, queryVec, embedCalls, e, w)} :
           /\ queryVec' = m.qv
           /\ embedCalls' = m.calls
           /\ sideDocs' = sideDocs \o m.store
           /\ IF m.kind = "skip"
              THEN /\ stepIdx' = stepIdx + 1
                   /\ UNCHANGED <<pc, outcome, error, body>>
              ELSE IF m.kind = "send"
              THEN /\ body' = m.body
                   /\ pc' = "search"
                   /\ UNCHANGED <<stepIdx, outcome, error>>
              ELSE /\ Throw(m.kind)
                   /\ UNCHANGED <<stepIdx, body>>
    /\ UNCHANGED <<scenario, fullPlan, results, hits, batches, cursor, served, openCursors>>
    /\ UNCHANGED plannerVars

RunStep == \E e \in EmbedOutcomes(scenario), w \in StoreOutcomes(scenario) : StepAct(e, w)

(* ------------------------- scrollAll ---------------------------------- *)
\* os.search({index, body, scroll}): n = -1 the call fails, else the first page
SearchAct(n) ==
    /\ pc = "search"
    /\ IF n < 0
       THEN /\ Throw("search")
            /\ UNCHANGED <<hits, batches, cursor, served, openCursors>>
       ELSE /\ hits' = Push(<<>>, Page(0, n))
            /\ served' = n
            /\ openCursors' = openCursors + 1
            /\ batches' = 0
            /\ cursor' = "open"
            /\ pc' = "scroll"
            /\ UNCHANGED <<outcome, error>>
    /\ UNCHANGED <<scenario, body, sideDocs>>
    /\ UNCHANGED plannerVars
    /\ UNCHANGED runVars

Search == \E n \in SearchOutcomes(scenario) : SearchAct(n)

\* os.scroll({scroll_id}): n = -1 the call fails, else a batch of n hits
ScrollAct(n) ==
    /\ pc = "scroll"
    /\ IF n < 0
       THEN /\ Throw("scroll")
            /\ UNCHANGED <<hits, batches, served>>
       ELSE IF ScrollBreak(Page(served, n))
       THEN /\ pc' = "clear"
            /\ UNCHANGED <<hits, batches, served, outcome, error>>
       ELSE /\ hits' = Push(hits, Page(served, n))
            /\ served' = served + n
            /\ batches' = batches + (IF n > 0 THEN 1 ELSE 0)
            /\ UNCHANGED <<pc, outcome, error>>
    /\ UNCHANGED <<scenario, body, cursor, openCursors, sideDocs>>
    /\ UNCHANGED plannerVars
    /\ UNCHANGED runVars

\* the scroll call returns a batch
ScrollReturns == \E n \in ScrollOutcomes(scenario, batches) \ {0 - 1} : ScrollAct(n)
\* the scroll call fails (the cursor expired, the backend is unreachable)
ScrollFails == (0 - 1) \in ScrollOutcomes(scenario, batches) /\ ScrollAct(0 - 1)

\* os.clearScroll, then back in runPlan: results.set(id, {purpose, hits})
ClearAct(o) ==
    /\ pc = "clear"
    /\ IF o = "throws"
       THEN /\ Throw("clearScroll")
            /\ UNCHANGED <<cursor, openCursors, results, stepIdx>>
       ELSE /\ cursor' = "released"
            /\ openCursors' = AfterClear(openCursors)
            /\ results' = MapSet(results, StepId(fullPlan[stepIdx]),
                                 StepPurpose(fullPlan[stepIdx]), hits)
            /\ stepIdx' = stepIdx + 1
            /\ pc' = "step"
            /\ UNCHANGED <<outcome, error>>
    /\ UNCHANGED <<scenario, fullPlan, queryVec, embedCalls, body, hits, batches,
                   served, sideDocs>>
    /\ UNCHANGED plannerVars

ClearScroll == \E o \in ClearOutcomes(scenario) : ClearAct(o)

(* ------------------------- planAndExecute, after runPlan -------------- *)
\* step 5: runPlan returned; summary, history.push, the zero-hit stop
Summarise ==
    /\ pc = "step"
    /\ stepIdx > Len(fullPlan)
    /\ history' = HistoryPush(history, Summary(results))
    /\ IF AllZero(Summary(results))
       THEN /\ pc' = "done"
            /\ outcome' = "zero_hit"
            /\ returned' = results
       ELSE /\ pc' = "cov"
            /\ UNCHANGED <<outcome, returned>>
    /\ UNCHANGED <<scenario, iteration, rawPlan, plan, error, lastCov, planArg, covArg,
                   planCalls, runCalls, covCalls>>
    /\ UNCHANGED runVars
    /\ UNCHANGED scrollVars

\* checkCoverage answers; if (covered) return execResults
CoverageAct(ans) ==
    /\ pc = "cov"
    /\ covCalls' = covCalls + 1
    /\ covArg' = CoverageArg(history, Summary(results))
    /\ lastCov' = ans
    /\ IF CheckCoverage(ans)
       THEN /\ pc' = "done"
            /\ outcome' = "converged"
            /\ returned' = results
       ELSE /\ pc' = "test"
            /\ UNCHANGED <<outcome, returned>>
    /\ UNCHANGED <<scenario, iteration, history, rawPlan, plan, error, planArg,
                   planCalls, runCalls>>
    /\ UNCHANGED runVars
    /\ UNCHANGED scrollVars

Coverage == \E ans \in CoverageAnswers(scenario) : CoverageAct(ans)

(* ------------------------- specifications ----------------------------- *)
Next ==
    \/ LoopTest
    \/ PlanOracle
    \/ RunPlanStart
    \/ RunStep
    \/ Search
    \/ ScrollReturns
    \/ ScrollFails
    \/ ClearScroll
    \/ Summarise
    \/ Coverage

Spec == Init /\ [][Next]_vars

\* every call made by the request returns: the task is never left suspended.
\* A failing scroll call is possible but never owed.
Returns ==
    \/ LoopTest
    \/ PlanOracle
    \/ RunPlanStart
    \/ RunStep
    \/ Search
    \/ ScrollReturns
    \/ ClearScroll
    \/ Summarise
    \/ Coverage

FairSpec == Spec /\ WF_vars(Returns)

\* the same request against the large index
InitBulk ==
    /\ scenario = "bulk"
    /\ pc = "test"
    /\ iteration = 0
    /\ history = <<>>
    /\ rawPlan = PlanVal(TRUE, <<>>)
    /\ plan = <<>>
    /\ outcome = "running"
    /\ error = "none"
    /\ returned = <<>>
    /\ lastCov = "none"
    /\ planArg = <<>>
    /\ covArg = <<>>
    /\ planCalls = 0
    /\ runCalls = 0
    /\ covCalls = 0
    /\ fullPlan = <<>>
    /\ stepIdx = 0
    /\ results = <<>>
    /\ queryVec = None
    /\ embedCalls = 0
    /\ body = None
    /\ hits = <<>>
    /\ batches = 0
    /\ cursor = "none"
    /\ served = 0
    /\ openCursors = 0
    /\ sideDocs = <<>>

BulkSpec == InitBulk /\ [][Next]_vars

\* the same request when later plans name steps of earlier plans
InitChain ==
    /\ scenario = "chain"
    /\ pc = "test"
    /\ iteration = 0
    /\ history = <<>>
    /\ rawPlan = PlanVal(TRUE, <<>>)
    /\ plan = <<>>
    /\ outcome = "running"
    /\ error = "none"
    /\ returned = <<>>
    /\ lastCov = "none"
    /\ planArg = <<>>
    /\ covArg = <<>>
    /\ planCalls = 0
    /\ runCalls = 0
    /\ covCalls = 0
    /\ fullPlan = <<>>
    /\ stepIdx = 0
    /\ results = <<>>
    /\ queryVec = None
    /\ embedCalls = 0
    /\ body = None
    /\ hits = <<>>
    /\ batches = 0
    /\ cursor = "none"
    /\ served = 0
    /\ openCursors = 0
    /\ sideDocs = <<>>

ChainSpec == InitChain /\ [][Next]_vars

(* ------------------------- claims ------------------------------------- *)
CoverageFailed == lastCov \in {"throws", "unparsable"}
NoHits(res) == \A i \in 1..Len(res) : Len(res[i].hits) = 0

\* C1 (as stated): if the coverage oracle never answers covered, planAndExecute
\* makes exactly MAX_AGENT_ITER plan-oracle calls and ends in the gave-up
\* outcome.  Runs that end in an exception are left aside here.
C1_SixPlansThenGaveUp ==
    (pc = "done" /\ lastCov # "true" /\ outcome # "threw")
        => (outcome = "gave_up" /\ planCalls = MAX_AGENT_ITER)

\* C1 (amended): if every planning attempt is followed by a coverage call (each
\* iteration found at least one hit) and the coverage oracle never answers
\* covered, then exactly MAX_AGENT_ITER plan-oracle calls were made and the
\* request gave up; and it gives up in no other way.
C1_GaveUpAfterSixCovered ==
    /\ (pc = "done" /\ covCalls = planCalls /\ lastCov # "true")
          => (outcome = "gave_up" /\ planCalls = MAX_AGENT_ITER)
    /\ outcome = "gave_up"
          => (planCalls = MAX_AGENT_ITER /\ covCalls = MAX_AGENT_ITER /\ lastCov # "true")

C1_Witness ==
    pc = "done" /\ outcome = "gave_up" /\ lastCov = "false"
    /\ planCalls = MAX_AGENT_ITER /\ covCalls = MAX_AGENT_ITER

\* C2: when the coverage oracle first answers covered in iteration 2, the
\* request has ended as converged with two plan-oracle calls, two runPlan
\* calls and two coverage calls, and nothing changes afterwards.
C2_StopsAtIterationTwo ==
    /\ []((lastCov = "true" /\ iteration = 2)
            => (pc = "done" /\ outcome = "converged" /\ returned = results
                /\ planCalls = 2 /\ runCalls = 2 /\ covCalls = 2))
    /\ [][(lastCov = "true" /\ iteration = 2) => UNCHANGED vars]_vars

C2_Witness == lastCov = "true" /\ iteration = 2 /\ outcome = "converged"

\* C3: the plan oracle and runPlan are never called more than MAX_AGENT_ITER
\* times in one request.
C3_AtMostSixAttempts ==
    planCalls <= MAX_AGENT_ITER /\ runCalls <= MAX_AGENT_ITER /\ covCalls <= MAX_AGENT_ITER

C3_Witness == planCalls = MAX_AGENT_ITER /\ runCalls = MAX_AGENT_ITER /\ pc = "cov"

\* C4: when every call returns, planAndExecute terminates.
C4_Terminates == <>(pc = "done")

C4_Witness == pc = "done" /\ outcome = "gave_up" /\ iteration = MAX_AGENT_ITER + 1

\* C5: planAndExecute never throws because of what the plan oracle or the
\* coverage oracle answered: no exception comes out of the repair of the plan.
C5_NoThrowFromOracleAnswer == ~(outcome = "threw" /\ error = "normalise")

\* a raw plan that is not a non-empty array of objects
Malformed(pv) ==
    \/ ~pv.isArray
    \/ Len(pv.steps) = 0
    \/ \A i \in 1..Len(pv.steps) : pv.steps[i].json # "object"

\* C6: for every malformed raw plan the repair stage raises no error and yields
\* a non-empty plan in which every step has a query body.
C6_FallbackTotality ==
    (planCalls > 0 /\ Malformed(rawPlan))
        => /\ error # "normalise"
           /\ Len(plan) > 0
           /\ \A i \in 1..Len(plan) : IsSome(plan[i].query_body)

\* C7: a raw plan of more than MAX_PLAN_STEPS steps is handed to runPlan as
\* exactly its first MAX_PLAN_STEPS steps, in their order.
C7_Truncation ==
    (pc = "run" /\ rawPlan.isArray /\ Len(rawPlan.steps) > MAX_PLAN_STEPS)
        => /\ Len(plan) = MAX_PLAN_STEPS
           /\ \A i \in 1..MAX_PLAN_STEPS :
                 /\ plan[i].step_id = rawPlan.steps[i].step_id
                 /\ plan[i].depends_on = rawPlan.steps[i].depends_on
                 /\ Get(plan[i].query_body).query = Get(rawPlan.steps[i].query_body).query

C7_Witness ==
    pc = "run" /\ Len(rawPlan.steps) = MAX_PLAN_STEPS + 2 /\ Len(plan) = MAX_PLAN_STEPS

\* C8: once runPlan has returned with zero hits in every entry, the request is
\* over with that result: the coverage oracle was not called in this iteration
\* and no plan-oracle call follows; and the zero-hit stop happens in no other case.
C8_ZeroHitStop ==
    /\ (runCalls > 0 /\ stepIdx > Len(fullPlan) /\ pc # "step" /\ NoHits(results))
          => /\ pc = "done" /\ outcome = "zero_hit"
             /\ returned = results
             /\ planCalls = runCalls /\ covCalls = runCalls - 1
    /\ outcome = "zero_hit" => NoHits(returned)

C8_Witness ==
    outcome = "zero_hit" /\ iteration = 2 /\ Len(returned) = 1 /\ covCalls = 1

\* C9: an iteration whose coverage call failed is not covered: the request is
\* either on its way to the next plan-oracle call, or the bound was reached
\* and it gave up; it never ends as converged.
C9_CoverageFailureNotCovered ==
    CoverageFailed
        => \/ pc = "test" /\ outcome = "running"
           \/ pc = "plan" /\ outcome = "running" /\ iteration <= MAX_AGENT_ITER
           \/ pc = "done" /\ outcome = "gave_up" /\ planCalls = MAX_AGENT_ITER

C9_Witness == CoverageFailed /\ pc = "plan" /\ iteration = 3

\* C10: on giving up, planAndExecute returns the execution results of the last
\* attempt.
C10_GaveUpReturnsLastResults == outcome = "gave_up" => returned = results

\* C11: the value returned after giving up is told apart from every value
\* returned on convergence or on the zero-hit stop: the two are never equal.
C11_GaveUpValueDistinct ==
    (pc = "done" /\ outcome \in {"converged", "zero_hit"})
        => returned # GaveUpValue(results)

\* C12: scrollAll collects, in order, every hit the backend handed out on the
\* cursor, from the first page to the last batch before the empty one, and
\* when it returns its value to runPlan the cursor has been released.
C12_ExhaustivePagination ==
    /\ [](pc \in {"scroll", "clear"} => hits = Page(0, served))
    /\ [][(pc = "clear" /\ pc' = "step")
            => /\ cursor' = "released"
               /\ HasKey(results', StepId(fullPlan[stepIdx]))
               /\ MapGet(results', StepId(fullPlan[stepIdx])).hits = Page(0, served)]_vars

\* three non-empty pages (2 + 2 + 1 in some order) were collected and stored
C12_Witness ==
    /\ pc = "step" /\ cursor = "released" /\ batches = MaxBatches
    /\ served = (MaxBatches + 1) * MaxPageLen - 1
    /\ Len(results) > 0 /\ results[Len(results)].hits = Page(0, served)

\* C13: no request ends with a cursor that was opened and for which
\* clearScroll was never called.
C13_CursorReleasedOnEveryExit ==
    (pc = "done" /\ error # "clearScroll") => cursor # "open"

\* C14: a failing first search request of a step does not abort the request.
C14_SearchFailureNotFatal == ~(pc = "done" /\ outcome = "threw" /\ error = "search")

\* C15: a scroll call that fails after hits were collected does not fail the
\* attempt.
C15_ScrollFailureKeepsPartial ==
    (error = "scroll" /\ Len(hits) > 0) => outcome # "threw"

\* the issue ids carried by the hits of the dependencies of step s
DepIdSet(s, res) ==
    UNION {{res[i].hits[j].issue_id : j \in 1..Len(res[i].hits)} :
              i \in {i \in 1..Len(res) :
                        \E d \in 1..Len(s.depends_on) : s.depends_on[d] = res[i].id}}

\* every step id in depends_on of s is a key of the result map
DepsPresent(s, res) ==
    \A d \in 1..Len(s.depends_on) : \E i \in 1..Len(res) : res[i].id = s.depends_on[d]

\* the clauses of body.query.bool.filter
FilterOf(b) == IF IsSome(b.query.bool) THEN Get(b.query.bool).filter ELSE <<>>

C17_EmptyIdSetSkips ==
    (pc = "search" /\ Len(fullPlan[stepIdx].depends_on) > 0)
        => DepIdSet(fullPlan[stepIdx], results) # {}

\* C18: up to ID_INLINE_MAX identifiers are listed in the filter and nothing
\* is written; above, the identifiers are written as one side document and the
\* filter refers to it by id and path; nothing else writes a side document.
C18_LargeSetIndirection ==
    /\ [](pc = "search" /\ DepIdSet(fullPlan[stepIdx], results) # {}
            => LET f == FilterOf(Get(body))[1]
                   set == DepIdSet(fullPlan[stepIdx], results)
               IN  IF Cardinality(set) <= ID_INLINE_MAX
                   THEN /\ f.lookup = None
                        /\ {f.ids[k] : k \in 1..Len(f.ids)} = set
                        /\ sideDocs = <<>>
                   ELSE /\ f.ids = <<>>
                        /\ Len(sideDocs) = 1
                        /\ f.lookup = Some([id |-> sideDocs[1].id, path |-> sideDocs[1].path])
                        /\ {sideDocs[1].issue_ids[k] : k \in 1..Len(sideDocs[1].issue_ids)} = set
                        /\ Len(sideDocs[1].issue_ids) = Cardinality(set))
    /\ [][sideDocs' # sideDocs
            => /\ pc = "step" /\ stepIdx <= Len(fullPlan)
               /\ Cardinality(DepIdSet(fullPlan[stepIdx], results)) > ID_INLINE_MAX
               /\ Len(sideDocs') = Len(sideDocs) + 1]_vars

\* ID_INLINE_MAX + 1 identifiers: the step is sent with the indirect filter
C18_Witness ==
    /\ pc = "search" /\ Len(sideDocs) = 1
    /\ Cardinality(DepIdSet(fullPlan[stepIdx], results)) = ID_INLINE_MAX + 1
    /\ IsSome(FilterOf(Get(body))[1].lookup)

\* C19: a step is sent only while every step id of its depends_on is a key of
\* the result map; a step with a missing dependency is passed over: no entry,
\* no error, and the loop goes on with the next step of the plan.
C19_SkipOnMissingDependency ==
    /\ [](pc \in {"search", "scroll", "clear"}
            => DepsPresent(fullPlan[stepIdx], results))
    /\ [][(pc = "step" /\ stepIdx <= Len(fullPlan)
            /\ ~DepsPresent(fullPlan[stepIdx], results))
            => /\ pc' = "step" /\ stepIdx' = stepIdx + 1
               /\ results' = results
               /\ outcome' = outcome /\ error' = error]_vars

\* step O was passed over and the next step of the plan is being sent
C19_Witness ==
    /\ pc = "search" /\ stepIdx = 2 /\ results = <<>>
    /\ fullPlan[1].step_id = "O" /\ ~DepsPresent(fullPlan[1], results)

\* C20: once an iteration is summarised, every step of the plan runPlan
\* executed, the skipped ones included, has an entry in the history.
C20_SkippedStepInHistory ==
    (pc = "cov" \/ (pc = "done" /\ outcome \in {"zero_hit", "converged"}))
        => \A i \in 1..Len(fullPlan) :
              \E j \in 1..Len(history) : history[j].step_id = StepId(fullPlan[i])

\* C21: in one runPlan call embedText is called at most once, and every request
\* that carries a knn clause carries the vector of that one call.
C21_EmbedOncePerAttempt ==
    /\ embedCalls <= 1
    /\ (pc = "search" /\ IsSome(Get(body).query.knn))
          => /\ embedCalls = 1
             /\ IsSome(queryVec)
             /\ Get(Get(body).query.knn).vector = Get(queryVec)
             /\ Get(queryVec).tag = 1

\* step Z embedded the query; step U, demoted to semantic recall, is sent next
C21_Witness ==
    /\ pc = "search" /\ stepIdx = 2 /\ fullPlan[2].step_id = "U"
    /\ HasKey(results, "Z") /\ IsSome(Get(body).query.knn) /\ embedCalls = 1

\* C22: a vector of the wrong length raises no error out of runPlan.
C22_BadVectorNotFatal == ~(pc = "done" /\ outcome = "threw" /\ error = "validate")

\* the clauses of a request body: the top-level leaf, bool.should, bool.filter
ClausesOf(b) ==
    b.query.leaf
    \o (IF IsSome(b.query.bool)
        THEN Get(b.query.bool).should \o Get(b.query.bool).filter ELSE <<>>)

\* C23: no request sent to the backend has a match, term, terms or range
\* clause on a field outside VALID_FIELDS.
C23_NoUnknownFieldSent ==
    pc = "search"
        => \A i \in 1..Len(ClausesOf(Get(body))) :
              ClausesOf(Get(body))[i].kw \in {"match", "term", "terms", "range"}
                  => Root(ClausesOf(Get(body))[i].field) \in VALID_FIELDS

\* the round-robin merge of the claim: index 1 of every step's list in step
\* order, then index 2 of every list, and so on, absent entries skipped
RoundRobin(res) ==
    LET n == Len(res)
        depth == Len(Documents(res))
        grid == [k \in 1..(depth * n) |->
                    [d |-> ((k - 1) \div n) + 1, i |-> ((k - 1) % n) + 1]]
        sel == SelectSeq(grid, LAMBDA p : p.d <= Len(res[p.i].hits))
    IN  [k \in 1..Len(sel) |-> res[sel[k].i].hits[sel[k].d]]

\* a request that ended by returning a result map to ask
ReturnedMap == pc = "done" /\ outcome \in {"converged", "zero_hit", "gave_up"}

\* C24: the document list is the round-robin merge of the steps' hit lists.
C24_RoundRobinMerge == ReturnedMap => Documents(returned) = RoundRobin(returned)

\* C25: the document list holds no backend identifier twice.
C25_NoDuplicateDocument ==
    ReturnedMap
        => \A i, j \in 1..Len(Documents(returned)) :
              Documents(returned)[i]._id = Documents(returned)[j]._id => i = j

\* the raw plan of this iteration is not a non-empty array
RawPlanUnusable == planCalls > 0 /\ (~rawPlan.isArray \/ Len(rawPlan.steps) = 0)

\* a semantic-similarity step: an embedding search with no filters, size DEFAULT_K
IsSemanticStep(s) ==
    /\ s.requires_embedding
    /\ IsSome(s.query_body)
    /\ IsSome(Get(s.query_body).query.knn)
    /\ Get(s.query_body).query.leaf = None
    /\ Get(s.query_body).query.bool = None
    /\ Get(s.query_body).size = Some(DEFAULT_K)

\* a text step: prefix and wildcard on attachment_content, no vector, size DEFAULT_K
IsPrefixStep(s) ==
    /\ ~s.requires_embedding
    /\ IsSome(s.query_body)
    /\ Get(s.query_body).query.knn = None
    /\ IsSome(Get(s.query_body).query.bool)
    /\ Get(Get(s.query_body).query.bool).filter = <<>>
    /\ Get(Get(s.query_body).query.bool).should
          = <<Clause("match_phrase_prefix", "attachment_content"),
              Clause("wildcard", "attachment_content")>>
    /\ Get(s.query_body).size = Some(DEFAULT_K)

\* C26 (as stated): when the raw plan is not a non-empty array, the plan that
\* is executed is exactly one semantic-similarity step.
C26_FallbackIsOneSemanticStep ==
    (pc = "run" /\ RawPlanUnusable) => (Len(plan) = 1 /\ IsSemanticStep(plan[1]))

\* C26 (amended): when the raw plan is not a non-empty array, the plan that is
\* executed has exactly two steps, a prefix / wildcard text step and then a
\* semantic-similarity step, and runPlan adds no step of its own.
C26_FallbackIsPrefixThenSemantic ==
    /\ (pc = "run" /\ RawPlanUnusable)
          => (Len(plan) = 2 /\ IsPrefixStep(plan[1]) /\ IsSemanticStep(plan[2]))
    /\ (pc \in {"step", "search", "scroll", "clear"} /\ RawPlanUnusable)
          => fullPlan = plan

C26_Witness ==
    /\ pc = "search" /\ stepIdx = 2 /\ ~rawPlan.isArray
    /\ Len(fullPlan) = 2 /\ fullPlan[2].step_id = "semantic_fallback"

\* the size the step being executed gave in the raw plan; the steps the code
\* writes itself (fallback, semantic_recall, a step without a body) give DEFAULT_K
GivenSize ==
    LET off == Len(fullPlan) - Len(plan)
    IN  IF RawPlanUnusable \/ stepIdx <= off THEN Some(DEFAULT_K)
        ELSE IF ~IsSome(StepBody(rawPlan.steps[stepIdx - off])) THEN Some(DEFAULT_K)
        ELSE Get(StepBody(rawPlan.steps[stepIdx - off])).size

\* C27 (as stated): every request sent has a size: the step's own size when
\* the step gives one, else DEFAULT_K.
C27_SizeIsOwnOrDefault ==
    pc = "search"
        => Get(body).size = (IF IsSome(GivenSize) THEN GivenSize ELSE Some(DEFAULT_K))

\* C27 (amended): every request sent has a size: the step's own size when the
\* step gives one that is not 0, else DEFAULT_K.
C27_SizeIsOwnNonZeroOrDefault ==
    pc = "search"
        => /\ IsSome(Get(body).size)
           /\ Get(Get(body).size) # 0
           /\ Get(body).size = (IF IsSome(GivenSize) /\ Get(GivenSize) # 0
                                THEN GivenSize ELSE Some(DEFAULT_K))

\* step U gave size 5 and is sent with size 5, after step Z, which gave size 0
C27_Witness ==
    /\ pc = "search" /\ stepIdx = 2 /\ fullPlan[2].step_id = "U"
    /\ GivenSize = Some(5) /\ Get(body).size = Some(5) /\ HasKey(results, "Z")

\* C28: runPlan never iterates over more than MAX_PLAN_STEPS steps.
C28_AtMostMaxSteps == Len(fullPlan) <= MAX_PLAN_STEPS

\* C29: in every iteration the plan oracle is called first, then runPlan, then
\* the coverage oracle at most once and only after runPlan returned; the plan
\* oracle is called again only after the coverage oracle answered not covered.
C29_CallOrder ==
    /\ [](runCalls <= planCalls /\ planCalls <= runCalls + 1 /\ covCalls <= runCalls)
    /\ [][runCalls' # runCalls
            => (runCalls' = runCalls + 1 /\ planCalls = runCalls' /\ covCalls = runCalls)]_vars
    /\ [][covCalls' # covCalls
            => /\ covCalls' = covCalls + 1 /\ covCalls' = runCalls /\ runCalls = planCalls
               /\ pc = "cov" /\ stepIdx > Len(fullPlan)]_vars
    /\ [][planCalls' # planCalls
            => /\ planCalls' = planCalls + 1
               /\ runCalls = planCalls /\ covCalls = planCalls
               /\ planCalls > 0 => lastCov \in {"false", "throws", "unparsable"}]_vars

C29_Witness ==
    pc = "run" /\ planCalls = 2 /\ runCalls = 1 /\ covCalls = 1 /\ iteration = 2

\* the summary of a result map, as planAndExecute builds it
SummaryOf(res) ==
    [i \in 1..Len(res) |-> [step_id |-> res[i].id, hit_count |-> Len(res[i].hits)]]

\* C30: the history only grows, by the summary of the iteration that just
\* ran; the plan oracle is handed the whole history so far (empty in iteration
\* 1), the coverage oracle only the summary of its own iteration.
C30_HistoryAppendOnly ==
    /\ [][Len(history') >= Len(history)
            /\ SubSeq(history', 1, Len(history)) = history]_vars
    /\ [][history' # history => history' = history \o SummaryOf(results)]_vars
    /\ [][planCalls' # planCalls
            => (planArg' = history /\ (iteration = 1 => planArg' = <<>>))]_vars
    /\ [][covCalls' # covCalls => covArg' = SummaryOf(results)]_vars

\* the third plan-oracle call was handed the summaries of iterations 1 and 2
C30_Witness ==
    /\ pc = "run" /\ iteration = 3 /\ planCalls = 3
    /\ Len(history) = 2 /\ planArg = history /\ history[1] # history[2]
    /\ covArg = <<history[2]>>

\* the step ids of the steps of fullPlan placed before position n
IdsBefore(n) == {StepId(fullPlan[j]) : j \in 1..(n - 1)}
\* the step ids the history reports with at least one hit
IdsInHistory == {history[i].step_id : i \in {j \in 1..Len(history) : history[j].hit_count > 0}}

\* C31: the result map and the cached embedding belong to one attempt: every
\* runPlan call starts with an empty map and no embedding, every entry of the
\* map is the entry of a step of the current plan that ran in this call, and
\* a step that names a step id executed only in an earlier iteration is
\* skipped without a request.
C31_ResultsOfOneAttempt ==
    /\ [](pc \in {"step", "search", "scroll", "clear"}
            => \A i \in 1..Len(results) : results[i].id \in IdsBefore(stepIdx))
    /\ [][runCalls' # runCalls => (results' = <<>> /\ queryVec' = None)]_vars
    /\ [][(/\ pc = "step" /\ stepIdx <= Len(fullPlan)
            /\ \E i \in 1..Len(fullPlan[stepIdx].depends_on) :
                   /\ fullPlan[stepIdx].depends_on[i] \in IdsInHistory
                   /\ fullPlan[stepIdx].depends_on[i] \notin IdsBefore(stepIdx))
            => (pc' = "step" /\ stepIdx' = stepIdx + 1 /\ results' = results
                /\ body' = body /\ openCursors' = openCursors)]_vars

\* in iteration 2 step D, which names step A of iteration 1, was skipped: the
\* map holds the recall step of this attempt only
C31_Witness ==
    /\ pc = "step" /\ iteration = 2 /\ stepIdx = 3 /\ Len(fullPlan) = 2
    /\ fullPlan[2].step_id = "D" /\ "A" \in IdsInHistory
    /\ Len(results) = 1 /\ results[1].id = "semantic_recall" /\ Len(results[1].hits) > 0

DistinctIds ==
    \A i, j \in 1..Len(fullPlan) : i # j => StepId(fullPlan[i]) # StepId(fullPlan[j])

\* C32: in a plan whose step ids are distinct, no request is sent for a step
\* whose depends_on names the step itself or a step placed after it.
C32_NoSelfOrForwardDependencySent ==
    (DistinctIds /\ pc \in {"search", "scroll", "clear"})
        => \A i \in 1..Len(fullPlan[stepIdx].depends_on) :
               \A j \in stepIdx..Len(fullPlan) :
                   StepId(fullPlan[j]) # fullPlan[stepIdx].depends_on[i]

\* step S names itself and step F names step T placed after it: both were
\* passed over and step T is the first to be sent
C32_Witness ==
    /\ pc = "search" /\ stepIdx = 3 /\ Len(fullPlan) = 3 /\ Len(results) = 0
    /\ fullPlan[1].step_id = "S" /\ fullPlan[1].depends_on = <<"S">>
    /\ fullPlan[2].step_id = "F" /\ fullPlan[2].depends_on = <<"T">>
    /\ fullPlan[3].step_id = "T"

\* C33: the result map has one entry for each executed step: recording the
\* hits of a step adds an entry and never replaces the entry of another step.
C33_OneEntryPerExecutedStep ==
    [][(pc = "clear" /\ pc' = "step")
        => (/\ ~HasKey(results, StepId(fullPlan[stepIdx]))
            /\ Len(results') = Len(results) + 1)]_vars

\* the steps handed to the normalisation pass: the oracle's plan or the
\* fallback, cut to MAX_PLAN_STEPS
BeforeNormalise == Truncate(IF NeedsFallback(rawPlan) THEN FallbackPlan ELSE rawPlan.steps)
\* the query body a step came with, under either spelling
GivenBody(s) == IF IsSome(s.query_body) THEN s.query_body ELSE s.queryBody
\* a body whose missing size is DEFAULT_K
SizeFilled(b) == IF IsSome(b.size) THEN b ELSE [b EXCEPT !.size = Some(DEFAULT_K)]
\* what the pass does to the bodies: a step that came with a body keeps it
\* and all its other fields, a step that came without one gets the
\* semantic-similarity body and is_final = true
BodiesNormalised ==
    \A i \in 1..Len(plan) :
        LET s == BeforeNormalise[i]
        IN  IF IsSome(GivenBody(s))
            THEN /\ plan[i].query_body = Some(SizeFilled(Get(GivenBody(s))))
                 /\ plan[i].purpose = s.purpose
                 /\ plan[i].requires_embedding = s.requires_embedding
                 /\ plan[i].depends_on = s.depends_on
                 /\ plan[i].is_final = s.is_final
            ELSE /\ plan[i].query_body =
                        Some(Body(<<"doc_id", "file_path", "attachment_content">>,
                                  Some(DEFAULT_K),
                                  Query(Some(Knn(EmptyVec, Some(DEFAULT_K))), None, None)))
                 /\ plan[i].is_final = TRUE
                 /\ plan[i].requires_embedding = TRUE

\* C34: the normalisation pass preserves the number, the order and the
\* step_ids of the steps; a step with a query body keeps it (a missing size
\* becomes DEFAULT_K), a step without one keeps its step_id and position and
\* receives the semantic-similarity body with is_final = true.
C34_NormalisationKeepsStepIds ==
    pc = "run"
        => /\ Len(plan) = Len(BeforeNormalise)
           /\ \A i \in 1..Len(plan) : plan[i].step_id = BeforeNormalise[i].step_id
           /\ BodiesNormalised

\* C34 (amended): as above, but a step that has neither a query body nor a
\* step_id is given the step_id auto_semantic; every other step keeps its
\* step_id (a step with a body and no step_id stays without one).
C34_NormalisationFrame ==
    pc = "run"
        => /\ Len(plan) = Len(BeforeNormalise)
           /\ \A i \in 1..Len(plan) :
                  plan[i].step_id =
                      (IF ~IsSome(GivenBody(BeforeNormalise[i]))
                          /\ BeforeNormalise[i].step_id = ""
                       THEN "auto_semantic" ELSE BeforeNormalise[i].step_id)
           /\ BodiesNormalised

\* the plan was one step with neither id nor body: it is now the step
\* auto_semantic with the semantic-similarity body
C34_Witness ==
    /\ pc = "run" /\ Len(BeforeNormalise) = 1
    /\ BeforeNormalise[1].step_id = "" /\ ~IsSome(GivenBody(BeforeNormalise[1]))
    /\ Len(plan) = 1 /\ plan[1].step_id = "auto_semantic" /\ plan[1].is_final

\* the step whose request is being sent, and the body it came with
SentStep == fullPlan[stepIdx]
SentGiven == Get(SentStep.query_body)
\* no top-level clause of the step is on a field outside the schema
KnownTop(b) ==
    ~IsSome(b.query.leaf) \/ Root(Get(b.query.leaf).field) \in VALID_FIELDS
\* the filters the step came with
GivenFilter(b) == IF IsSome(b.query.bool) THEN Get(b.query.bool).filter ELSE <<>>
GivenShould(b) == IF IsSome(b.query.bool) THEN Get(b.query.bool).should ELSE <<>>

\* C35: injectChainedIds only adds to the request: for a chained step that is
\* sent as it came, the filters it came with are kept in order and followed
\* by one terms clause on issue_id, every other part of the body is the
\* step's own, and with no identifier collected the body is the step's own.
C35_InjectOnlyAdds ==
    (/\ pc = "search" /\ Len(SentStep.depends_on) > 0
     /\ ~SentStep.requires_embedding /\ KnownTop(SentGiven))
        => LET b == Get(body)
               ids == CollectIds(SentStep.depends_on, results)
           IN  /\ b.source = SentGiven.source
               /\ b.size = Some(TopK(SentGiven.size))
               /\ b.query.knn = SentGiven.query.knn
               /\ b.query.leaf = SentGiven.query.leaf
               /\ IF Len(ids) = 0
                  THEN b.query.bool = SentGiven.query.bool
                  ELSE /\ IsSome(b.query.bool)
                       /\ Get(b.query.bool).should = GivenShould(SentGiven)
                       /\ Len(Get(b.query.bool).filter) = Len(GivenFilter(SentGiven)) + 1
                       /\ SubSeq(Get(b.query.bool).filter, 1, Len(GivenFilter(SentGiven)))
                              = GivenFilter(SentGiven)
                       /\ Get(b.query.bool).filter[Len(GivenFilter(SentGiven)) + 1].kw = "terms"
                       /\ Get(b.query.bool).filter[Len(GivenFilter(SentGiven)) + 1].field
                              = "issue_id"

\* step G came with two filters and is sent with three: its own two, in
\* order, then the identifiers of step A
C35_Witness ==
    /\ pc = "search" /\ SentStep.step_id = "G" /\ HasKey(results, "A")
    /\ Len(MapGet(results, "A").hits) > 0
    /\ Len(Get(Get(body).query.bool).filter) = 3
    /\ Get(Get(body).query.bool).filter[1].field = "doc_type"
    /\ Get(Get(body).query.bool).filter[2].field = "file_type"
    /\ Get(Get(body).query.bool).filter[3].ids # <<>>

\* C37: within one request at most one cursor is open at any time, and a
\* search is issued only when no cursor of the request is open.
C37_AtMostOneCursor ==
    /\ [](openCursors <= 1)
    /\ [][openCursors' > openCursors
            => (openCursors = 0 /\ cursor \in {"none", "released"})]_vars

\* the second executed step holds the only open cursor: the cursor of the
\* first was released before its search
C37_Witness ==
    /\ pc = "scroll" /\ stepIdx = 2 /\ Len(results) = 1
    /\ openCursors = 1 /\ cursor = "open"

\* C38: a step that needs no embedding and whose top-level clause is a term,
\* match or terms on a field outside VALID_FIELDS is sent as a knn query with
\* the query embedding and k equal to its size, without its own clause; a
\* step whose top-level clause is on a known field is sent with that clause.
C38_DemotionToSemanticRecall ==
    (/\ pc = "search" /\ ~SentStep.requires_embedding /\ IsSome(SentGiven.query.leaf))
        => LET leaf == Get(SentGiven.query.leaf)
               q == Get(body).query
           IN  IF leaf.kw \in {"term", "match", "terms"}
                  /\ Root(leaf.field) \notin VALID_FIELDS
               THEN /\ q.leaf = None
                    /\ IsSome(q.knn) /\ IsSome(queryVec)
                    /\ Get(q.knn).vector = Get(queryVec)
                    /\ Get(q.knn).vector.len = EMBED_DIM
                    /\ Get(q.knn).k = Get(body).size
                    /\ Get(body).size = Some(TopK(SentGiven.size))
               ELSE /\ q.leaf = SentGiven.query.leaf
                    /\ q.knn = SentGiven.query.knn

\* step U, a term on patient.name with size 5, is sent as a knn query, k = 5
C38_Witness ==
    /\ pc = "search" /\ SentStep.step_id = "U"
    /\ Get(SentGiven.query.leaf).field = "patient.name"
    /\ Get(body).query.leaf = None
    /\ Get(Get(body).query.knn).k = Some(5)
    /\ Get(Get(body).query.knn).vector.len = EMBED_DIM

====
